---- MODULE Spec2Model ----
(***************************************************************************)
(* KeePass native messaging host (keepass_host.py): the frame codec over   *)
(* stdin/stdout, the message envelope, the action router and the session   *)
(* loop.  Bytes are integers 0..255; text is a sequence of code points;    *)
(* JSON documents are tagged records.                                      *)
(***************************************************************************)
EXTENDS Integers, Sequences, FiniteSets, TLC

\* ------------------------------------------------------------------------
\* Text constants of the program (code points of the Python literals)
\* ------------------------------------------------------------------------
K_id == <<105, 100>>  \* 'id'
K_action == <<97, 99, 116, 105, 111, 110>>  \* 'action'
K_data == <<100, 97, 116, 97>>  \* 'data'
K_success == <<115, 117, 99, 99, 101, 115, 115>>  \* 'success'
K_error == <<101, 114, 114, 111, 114>>  \* 'error'
K_domain == <<100, 111, 109, 97, 105, 110>>  \* 'domain'
K_connected == <<99, 111, 110, 110, 101, 99, 116, 101, 100>>  \* 'connected'
K_message == <<109, 101, 115, 115, 97, 103, 101>>  \* 'message'
K_credentials == <<99, 114, 101, 100, 101, 110, 116, 105, 97, 108, 115>>  \* 'credentials'
K_isOpen == <<105, 115, 79, 112, 101, 110>>  \* 'isOpen'
K_isDatabaseLoaded == <<105, 115, 68, 97, 116, 97, 98, 97, 115, 101, 76, 111, 97, 100, 101, 100>>  \* 'isDatabaseLoaded'
K_databaseName == <<100, 97, 116, 97, 98, 97, 115, 101, 78, 97, 109, 101>>  \* 'databaseName'
S_test_connection == <<116, 101, 115, 116, 45, 99, 111, 110, 110, 101, 99, 116, 105, 111, 110>>  \* 'test-connection'
S_get_credentials == <<103, 101, 116, 45, 99, 114, 101, 100, 101, 110, 116, 105, 97, 108, 115>>  \* 'get-credentials'
S_get_status == <<103, 101, 116, 45, 115, 116, 97, 116, 117, 115>>  \* 'get-status'
S_ConnOk == <<67, 111, 110, 110, 101, 99, 116, 105, 111, 110, 32, 116, 101, 115, 116, 32, 115, 117, 99, 99, 101, 115, 115, 102, 117, 108>>  \* 'Connection test successful'
S_NotAvail == <<80, 121, 75, 101, 101, 80, 97, 115, 115, 32, 110, 111, 116, 32, 97, 118, 97, 105, 108, 97, 98, 108, 101>>  \* 'PyKeePass not available'
S_NoDomain == <<68, 111, 109, 97, 105, 110, 32, 110, 111, 116, 32, 112, 114, 111, 118, 105, 100, 101, 100>>  \* 'Domain not provided'
S_UnknownAction == <<85, 110, 107, 110, 111, 119, 110, 32, 97, 99, 116, 105, 111, 110, 58, 32>>  \* 'Unknown action: '
S_AttrPost == <<39, 32, 111, 98, 106, 101, 99, 116, 32, 104, 97, 115, 32, 110, 111, 32, 97, 116, 116, 114, 105, 98, 117, 116, 101, 32, 39, 103, 101, 116, 39>>  \* "' object has no attribute 'get'"

\* ------------------------------------------------------------------------
\* Python values that json.loads produces and json.dumps accepts
\* ------------------------------------------------------------------------
JNull == [t |-> "null"]                    \* None
JBool(b) == [t |-> "bool", b |-> b]        \* True / False
JInt(n) == [t |-> "int", n |-> n]
JStr(s) == [t |-> "str", s |-> s]
JArr(a) == [t |-> "arr", a |-> a]          \* list
JObj(m) == [t |-> "obj", m |-> m]          \* dict: <<key, value>> pairs in insertion order

Fail == [ok |-> FALSE]

\* index of key k among the pairs m, 0 when absent
RECURSIVE DictIndex(_, _, _)
DictIndex(m, k, i) ==
  IF i > Len(m) THEN 0
  ELSE IF m[i][1] = k THEN i ELSE DictIndex(m, k, i + 1)

\* dict.get(k, default)
DictGet(d, k, default) ==
  LET i == DictIndex(d.m, k, 1) IN IF i = 0 THEN default ELSE d.m[i][2]

\* k in d
DictHas(d, k) == DictIndex(d.m, k, 1) # 0

\* d[k] = v (a key already present keeps its position)
DictSet(m, k, v) ==
  LET i == DictIndex(m, k, 1)
  IN IF i = 0 THEN Append(m, <<k, v>>) ELSE [m EXCEPT ![i] = <<k, v>>]

\* ------------------------------------------------------------------------
\* str(): decimal digits of an int, and the text Python formats a value to
\* ------------------------------------------------------------------------
RECURSIVE Digits(_)
Digits(n) == IF n < 10 THEN <<48 + n>> ELSE Digits(n \div 10) \o <<48 + (n % 10)>>

IntStr(n) == IF n < 0 THEN <<45>> \o Digits(0 - n) ELSE Digits(n)

\* f"{v}" / str(v) for None, bool, int and str values
PyStr(v) ==
  CASE v.t = "null" -> <<78, 111, 110, 101>>                              \* 'None'
    [] v.t = "bool" -> IF v.b THEN <<84, 114, 117, 101>>                   \* 'True'
                       ELSE <<70, 97, 108, 115, 101>>                     \* 'False'
    [] v.t = "int" -> IntStr(v.n)
    [] v.t = "str" -> v.s
    [] v.t = "arr" -> <<91, 93>>                                           \* '[]' (only the empty list occurs)
    [] v.t = "obj" -> <<123, 125>>                                         \* '{}' (only the empty dict occurs)

\* type(v).__name__
TypeName(v) ==
  CASE v.t = "null" -> <<78, 111, 110, 101, 84, 121, 112, 101>>           \* 'NoneType'
    [] v.t = "bool" -> <<98, 111, 111, 108>>                               \* 'bool'
    [] v.t = "int" -> <<105, 110, 116>>                                    \* 'int'
    [] v.t = "str" -> <<115, 116, 114>>                                    \* 'str'
    [] v.t = "arr" -> <<108, 105, 115, 116>>                               \* 'list'
    [] v.t = "obj" -> <<100, 105, 99, 116>>                                \* 'dict'

\* str(AttributeError) raised by v.get on a value that is not a dict
NoGetError(v) == <<39>> \o TypeName(v) \o S_AttrPost

\* bool(v): Python truthiness
Truthy(v) ==
  CASE v.t = "null" -> FALSE
    [] v.t = "bool" -> v.b
    [] v.t = "int" -> v.n # 0
    [] v.t = "str" -> Len(v.s) > 0
    [] v.t = "arr" -> Len(v.a) > 0
    [] v.t = "obj" -> Len(v.m) > 0

\* ------------------------------------------------------------------------
\* json.dumps(v) with the default separators (', ' and ': ') and
\* ensure_ascii; the text alphabet is ASCII, so the only escapes are \" \\
\* ------------------------------------------------------------------------
\* as EscapeStr, without any escape
EscapeStr_Raw(s) == s

\* the escaped form of each character, joined (by halves, to keep the
\* evaluation shallow)
RECURSIVE EscapeStr(_)
EscapeStr(s) ==
  IF s = <<>> THEN <<>>
  ELSE IF Len(s) = 1
       THEN (IF s[1] = 34 \/ s[1] = 92 THEN <<92, s[1]>> ELSE s)
  ELSE LET h == Len(s) \div 2
       IN EscapeStr(SubSeq(s, 1, h)) \o EscapeStr(SubSeq(s, h + 1, Len(s)))

DumpStr(s) == <<34>> \o EscapeStr(s) \o <<34>>

RECURSIVE json_dumps(_), DumpItems(_), DumpMembers(_)
json_dumps(v) ==
  CASE v.t = "null" -> <<110, 117, 108, 108>>                              \* null
    [] v.t = "bool" -> IF v.b THEN <<116, 114, 117, 101>>                  \* true
                       ELSE <<102, 97, 108, 115, 101>>                    \* false
    [] v.t = "int" -> IntStr(v.n)
    [] v.t = "str" -> DumpStr(v.s)
    [] v.t = "arr" -> <<91>> \o DumpItems(v.a) \o <<93>>
    [] v.t = "obj" -> <<123>> \o DumpMembers(v.m) \o <<125>>

DumpItems(a) ==
  IF a = <<>> THEN <<>>
  ELSE json_dumps(Head(a))
       \o (IF Len(a) > 1 THEN <<44, 32>> \o DumpItems(Tail(a)) ELSE <<>>)

DumpMembers(m) ==
  IF m = <<>> THEN <<>>
  ELSE DumpStr(Head(m)[1]) \o <<58, 32>> \o json_dumps(Head(m)[2])
       \o (IF Len(m) > 1 THEN <<44, 32>> \o DumpMembers(Tail(m)) ELSE <<>>)

\* ------------------------------------------------------------------------
\* json.loads(text): the scanner of the json module on the model's alphabet
\* (objects, arrays, strings with the escapes \" \\ \/, integers, literals)
\* ------------------------------------------------------------------------
IsWs(c) == c = 32 \/ c = 9 \/ c = 10 \/ c = 13

RECURSIVE SkipWs(_, _)
SkipWs(s, i) == IF i <= Len(s) /\ IsWs(s[i]) THEN SkipWs(s, i + 1) ELSE i

\* s holds the characters lit from index i on
Matches(s, i, lit) ==
  /\ i + Len(lit) - 1 <= Len(s)
  /\ \A k \in 1..Len(lit) : s[i + k - 1] = lit[k]

\* the number of backslashes that end right before index j, from index i on
BackslashRun(s, i, j) ==
  CHOOSE k \in 0..(j - i) :
    /\ \A m \in 1..k : s[j - m] = 92
    /\ k = j - i \/ s[j - k - 1] # 92

\* index j of a string that starts at index i holds a backslash that
\* escapes the character after it
Escaping(s, i, j) == s[j] = 92 /\ BackslashRun(s, i, j) % 2 = 0

\* scanstring: i is the index after the opening quote; the string ends at
\* the first quote that no backslash escapes
ParseStr(s, i) ==
  LET closing == {j \in i..Len(s) : s[j] = 34 /\ BackslashRun(s, i, j) % 2 = 0}
  IN IF closing = {} THEN Fail                               \* unterminated string
     ELSE LET end == CHOOSE j \in closing : \A q \in closing : j <= q
              kept == {j \in i..(end - 1) : ~Escaping(s, i, j)}
          IN IF \E j \in i..(end - 1) :
                  \/ s[j] < 32                               \* control character
                  \/ Escaping(s, i, j) /\ s[j + 1] \notin {34, 92, 47}
             THEN Fail
             ELSE [ok |-> TRUE, i |-> end + 1,
                   v |-> [n \in 1..Cardinality(kept) |->
                            s[CHOOSE j \in kept :
                                Cardinality({q \in kept : q <= j}) = n]]]

RECURSIVE ParseDigits(_, _, _)
ParseDigits(s, i, n) ==
  IF i <= Len(s) /\ s[i] \in 48..57
  THEN ParseDigits(s, i + 1, 10 * n + (s[i] - 48))
  ELSE [ok |-> TRUE, v |-> n, i |-> i]

\* NUMBER_RE: -?(0|[1-9][0-9]*), integers only
ParseNumber(s, i) ==
  LET neg == s[i] = 45
      j == IF neg THEN i + 1 ELSE i
  IN IF j > Len(s) \/ s[j] \notin 48..57 THEN Fail
     ELSE IF s[j] = 48 THEN [ok |-> TRUE, v |-> JInt(0), i |-> j + 1]
     ELSE LET d == ParseDigits(s, j, 0)
          IN [ok |-> TRUE, v |-> JInt(IF neg THEN 0 - d.v ELSE d.v), i |-> d.i]

RECURSIVE ParseValue(_, _), ParseMembers(_, _, _), ParseItems(_, _, _)
\* scan_once(s, i)
ParseValue(s, i) ==
  IF i > Len(s) THEN Fail
  ELSE IF s[i] = 34 THEN
         LET r == ParseStr(s, i + 1)
         IN IF r.ok THEN [ok |-> TRUE, v |-> JStr(r.v), i |-> r.i] ELSE Fail
  ELSE IF s[i] = 123 THEN
         LET j == SkipWs(s, i + 1)
         IN IF j <= Len(s) /\ s[j] = 125
            THEN [ok |-> TRUE, v |-> JObj(<<>>), i |-> j + 1]
            ELSE ParseMembers(s, j, <<>>)
  ELSE IF s[i] = 91 THEN
         LET j == SkipWs(s, i + 1)
         IN IF j <= Len(s) /\ s[j] = 93
            THEN [ok |-> TRUE, v |-> JArr(<<>>), i |-> j + 1]
            ELSE ParseItems(s, j, <<>>)
  ELSE IF Matches(s, i, <<110, 117, 108, 108>>) THEN [ok |-> TRUE, v |-> JNull, i |-> i + 4]
  ELSE IF Matches(s, i, <<116, 114, 117, 101>>) THEN [ok |-> TRUE, v |-> JBool(TRUE), i |-> i + 4]
  ELSE IF Matches(s, i, <<102, 97, 108, 115, 101>>) THEN [ok |-> TRUE, v |-> JBool(FALSE), i |-> i + 5]
  ELSE IF s[i] = 45 \/ s[i] \in 48..57 THEN ParseNumber(s, i)
  ELSE Fail

\* JSONObject: i is the index where a key must start
ParseMembers(s, i, m) ==
  IF i > Len(s) \/ s[i] # 34 THEN Fail
  ELSE LET k == ParseStr(s, i + 1)
       IN IF ~k.ok THEN Fail
          ELSE LET c == SkipWs(s, k.i)
               IN IF c > Len(s) \/ s[c] # 58 THEN Fail
                  ELSE LET r == ParseValue(s, SkipWs(s, c + 1))
                       IN IF ~r.ok THEN Fail
                          ELSE LET e == SkipWs(s, r.i)
                                   m2 == DictSet(m, k.v, r.v)
                               IN IF e > Len(s) THEN Fail
                                  ELSE IF s[e] = 125 THEN [ok |-> TRUE, v |-> JObj(m2), i |-> e + 1]
                                  ELSE IF s[e] = 44 THEN ParseMembers(s, SkipWs(s, e + 1), m2)
                                  ELSE Fail

\* JSONArray: i is the index where an item must start
ParseItems(s, i, a) ==
  LET r == ParseValue(s, i)
  IN IF ~r.ok THEN Fail
     ELSE LET e == SkipWs(s, r.i)
              a2 == Append(a, r.v)
          IN IF e > Len(s) THEN Fail
             ELSE IF s[e] = 93 THEN [ok |-> TRUE, v |-> JArr(a2), i |-> e + 1]
             ELSE IF s[e] = 44 THEN ParseItems(s, SkipWs(s, e + 1), a2)
             ELSE Fail

\* json.loads: one value, then only whitespace up to the end of the text
json_loads(s) ==
  LET r == ParseValue(s, SkipWs(s, 1))
  IN IF ~r.ok THEN Fail
     ELSE IF SkipWs(s, r.i) # Len(s) + 1 THEN Fail          \* "Extra data"
     ELSE [ok |-> TRUE, v |-> r.v]

\* bytes.decode('utf-8') / str.encode('utf-8') on the model's alphabet:
\* ASCII bytes are their code points; the streams hold no byte above 127
\* other than 0xFF, which no UTF-8 sequence contains
utf8_decode(b) ==
  IF \E k \in 1..Len(b) : b[k] > 127 THEN Fail ELSE [ok |-> TRUE, v |-> b]

utf8_encode(s) == s

\* ------------------------------------------------------------------------
\* struct.pack('=I', n) / struct.unpack('=I', b): 4 bytes, native byte order
\* ------------------------------------------------------------------------
PackLE(n) == <<n % 256, (n \div 256) % 256, (n \div 65536) % 256, (n \div 16777216) % 256>>

Reverse4(b) == <<b[4], b[3], b[2], b[1]>>

struct_pack(n, order) ==
  IF n < 0 \/ (n \div 65536) >= 65536 THEN Fail              \* struct.error: not in 0..2^32-1
  ELSE [ok |-> TRUE, v |-> IF order = "little" THEN PackLE(n) ELSE Reverse4(PackLE(n))]

\* as struct_unpack, with the format '<I' in place of '=I'
struct_unpack_LittleEndian(b, order) ==
  IF Len(b) # 4 THEN Fail
  ELSE [ok |-> TRUE, v |-> IF b[4] >= 128 THEN 2147483647
                           ELSE b[1] + 256 * b[2] + 65536 * b[3] + 16777216 * b[4]]

struct_unpack(b, order) ==
  IF Len(b) # 4 THEN Fail                                    \* struct.error
  ELSE LET l == IF order = "little" THEN b ELSE Reverse4(b)
       \* a length of 2^31 or more is kept as 2^31-1: every stream is shorter,
       \* so read(n) returns the same bytes
       IN [ok |-> TRUE, v |-> IF l[4] >= 128 THEN 2147483647
                              ELSE l[1] + 256 * l[2] + 65536 * l[3] + 16777216 * l[4]]

Take(s, n) == SubSeq(s, 1, IF n < Len(s) THEN n ELSE Len(s))

Drop(s, n) == SubSeq(s, (IF n < Len(s) THEN n ELSE Len(s)) + 1, Len(s))

\* ------------------------------------------------------------------------
\* State
\* ------------------------------------------------------------------------
VARIABLES
  byteorder,            \* native byte order of the platform: "little" or "big"
  PYKEEPASS_AVAILABLE,  \* whether the import of pykeepass succeeded
  kp,                   \* self.kp
  database_path,        \* self.database_path
  is_connected,         \* self.is_connected
  stdin,                \* bytes of sys.stdin.buffer not read yet (the stream ends after them)
  stdout,               \* bytes accepted by sys.stdout.buffer.write
  flushed,              \* number of bytes of stdout that a flush has pushed out
  pc,                   \* position of run(): "read", "handle", "write_prefix",
                        \* "write_payload", "flush", "stopped"
  message,              \* run's local: the value read_message returned
  response,             \* run's local: the value handle_message returned
  encoded_message,      \* send_message's local
  faults,               \* number of stdout calls that have raised OSError
  script,               \* history: indexes of the frames the browser put on stdin
  last_read,            \* history: outcome of the last read_message
  stop_reason,          \* history: why run() left its loop
  requests,             \* history: the dicts run() obtained from read_message
  responses,            \* history: the responses whose frame send_message wrote whole
  handled,              \* history: <<request, response>> of every handle_message call
  mark,                 \* history: length of stdout when the last read_message returned
  stopped_at            \* history: the position run() was at when it left its loop

vars == <<byteorder, PYKEEPASS_AVAILABLE, kp, database_path, is_connected, stdin,
          stdout, flushed, pc, message, response, encoded_message, faults,
          script, last_read, stop_reason, requests, responses, handled, mark,
          stopped_at>>

session == <<byteorder, PYKEEPASS_AVAILABLE, kp, database_path, is_connected, script>>

\* ------------------------------------------------------------------------
\* Frame codec: read_message
\* ------------------------------------------------------------------------
NoRead == [kind |-> "none", length |-> 0, got |-> 0, consumed |-> 0]

\* the value read_message returns (JNull is None), the bytes left on the
\* stream, and what happened: kind is "EndOfStream", "DecodeError" (the
\* except clause) or "Message" (json.loads returned); length is the value
\* of the prefix and got the number of payload bytes read
read_message(stream, order) ==
  LET raw_length == Take(stream, 4)
      after == Drop(stream, 4)
      len == struct_unpack(raw_length, order)
  IN IF raw_length = <<>>
     THEN [message |-> JNull, rest |-> stream,
           info |-> [kind |-> "EndOfStream", length |-> 0, got |-> 0, consumed |-> 0]]
     ELSE IF ~len.ok
     THEN [message |-> JNull, rest |-> after,
           info |-> [kind |-> "DecodeError", length |-> 0, got |-> 0,
                     consumed |-> Len(raw_length)]]
     ELSE LET payload == Take(after, len.v)
              rest == Drop(after, len.v)
              text == utf8_decode(payload)
              doc == IF text.ok THEN json_loads(text.v) ELSE Fail
              info == [kind |-> IF doc.ok THEN "Message" ELSE "DecodeError",
                       length |-> len.v, got |-> Len(payload),
                       consumed |-> 4 + Len(payload)]
          IN [message |-> IF doc.ok THEN doc.v ELSE JNull, rest |-> rest, info |-> info]

\* ------------------------------------------------------------------------
\* Handlers
\* ------------------------------------------------------------------------
Return(v) == [ok |-> TRUE, v |-> v]

Raise(text) == [ok |-> FALSE, error |-> text]

handle_test_connection(data) ==
  Return(JObj(<< <<K_connected, JBool(PYKEEPASS_AVAILABLE)>>,
                 <<K_message, JStr(IF PYKEEPASS_AVAILABLE THEN S_ConnOk ELSE S_NotAvail)>> >>))

\* as handle_get_credentials, without the test of the domain
handle_get_credentials_NoDomainCheck(data) ==
  IF ~PYKEEPASS_AVAILABLE THEN Raise(S_NotAvail)
  ELSE IF data.t # "obj" THEN Raise(NoGetError(data))
  ELSE Return(JObj(<< <<K_credentials, JArr(<<>>)>> >>))

handle_get_credentials(data) ==
  IF ~PYKEEPASS_AVAILABLE THEN Raise(S_NotAvail)
  ELSE IF data.t # "obj" THEN Raise(NoGetError(data))       \* AttributeError of data.get
  ELSE LET domain == DictGet(data, K_domain, JStr(<<>>))
       IN IF ~Truthy(domain) THEN Raise(S_NoDomain)
          ELSE Return(JObj(<< <<K_credentials, JArr(<<>>)>> >>))

\* os.path.basename: the text after the last '/'
RECURSIVE basename(_)
basename(p) ==
  IF p = <<>> THEN <<>>
  ELSE IF \E k \in 1..Len(p) : p[k] = 47 THEN basename(Tail(p)) ELSE p

\* as handle_get_status, reporting the availability of pykeepass as isOpen
handle_get_status_Available(data) ==
  Return(JObj(<< <<K_isOpen, JBool(PYKEEPASS_AVAILABLE)>>,
                 <<K_isDatabaseLoaded, JBool(kp # JNull)>>,
                 <<K_databaseName, JStr(IF Truthy(database_path)
                                        THEN basename(database_path.s) ELSE <<>>)>> >>))

handle_get_status(data) ==
  Return(JObj(<< <<K_isOpen, JBool(kp # JNull)>>,
                 <<K_isDatabaseLoaded, JBool(kp # JNull)>>,
                 <<K_databaseName, JStr(IF Truthy(database_path)
                                        THEN basename(database_path.s) ELSE <<>>)>> >>))

\* as dispatch, with an error text that does not name the action
dispatch_NoName(action, data) ==
  IF action = JStr(S_test_connection) THEN handle_test_connection(data)
  ELSE IF action = JStr(S_get_credentials) THEN handle_get_credentials(data)
  ELSE IF action = JStr(S_get_status) THEN handle_get_status(data)
  ELSE Raise(S_UnknownAction)

\* the try block of handle_message: the routing on the action name
dispatch(action, data) ==
  IF action = JStr(S_test_connection) THEN handle_test_connection(data)
  ELSE IF action = JStr(S_get_credentials) THEN handle_get_credentials(data)
  ELSE IF action = JStr(S_get_status) THEN handle_get_status(data)
  ELSE Raise(S_UnknownAction \o PyStr(action))

\* as SuccessResponse, with an 'error' field beside 'data'
SuccessResponse_WithError(message_id, action, result) ==
  JObj(<< <<K_id, message_id>>, <<K_action, action>>,
          <<K_success, JBool(TRUE)>>, <<K_data, result>>, <<K_error, JNull>> >>)

SuccessResponse(message_id, action, result) ==
  JObj(<< <<K_id, message_id>>, <<K_action, action>>,
          <<K_success, JBool(TRUE)>>, <<K_data, result>> >>)

\* as ErrorResponse, without the id of the request
ErrorResponse_NoId(message_id, action, error) ==
  JObj(<< <<K_id, JNull>>, <<K_action, action>>,
          <<K_success, JBool(FALSE)>>, <<K_error, JStr(error)>> >>)

ErrorResponse(message_id, action, error) ==
  JObj(<< <<K_id, message_id>>, <<K_action, action>>,
          <<K_success, JBool(FALSE)>>, <<K_error, JStr(error)>> >>)

\* as handle_message, with the fixed error text 'error' in place of str(e)
handle_message_GenericError(msg) ==
  LET message_id == DictGet(msg, K_id, JNull)
      action == DictGet(msg, K_action, JNull)
      data == DictGet(msg, K_data, JObj(<<>>))
      outcome == dispatch(action, data)
  IN IF outcome.ok THEN SuccessResponse(message_id, action, outcome.v)
     ELSE ErrorResponse(message_id, action, <<101, 114, 114, 111, 114>>)

\* handle_message on a dict
handle_message(msg) ==
  LET message_id == DictGet(msg, K_id, JNull)
      action == DictGet(msg, K_action, JNull)
      data == DictGet(msg, K_data, JObj(<<>>))
      outcome == dispatch(action, data)
  IN IF outcome.ok THEN SuccessResponse(message_id, action, outcome.v)
     ELSE ErrorResponse(message_id, action, outcome.error)

\* ------------------------------------------------------------------------
\* The input streams: what the browser puts on stdin
\* ------------------------------------------------------------------------
MaxFrames == 2     \* frames per input stream
MaxFaults == 1     \* calls on sys.stdout.buffer that raise OSError in one run

S_does_not_exist == <<100, 111, 101, 115, 45, 110, 111, 116, 45, 101, 120, 105, 115, 116>>  \* 'does-not-exist'
S_abc123 == <<97, 98, 99, 49, 50, 51>>  \* 'abc123'
S_a_b == <<97, 46, 98>>  \* 'a.b'

Request(id, action) == JObj(<< <<K_id, id>>, <<K_action, action>> >>)

RequestWith(id, action, data) ==
  JObj(<< <<K_id, id>>, <<K_action, action>>, <<K_data, data>> >>)

\* request envelopes (JSON objects)
RequestDocs ==
  << Request(JInt(1), JStr(S_test_connection)),
     Request(JStr(S_abc123), JStr(S_get_status)),
     RequestWith(JInt(2), JStr(S_get_credentials), JObj(<< <<K_domain, JStr(S_a_b)>> >>)),
     RequestWith(JInt(3), JStr(S_get_credentials), JObj(<<>>)),
     JObj(<< <<K_action, JStr(S_get_credentials)>> >>),
     RequestWith(JInt(4), JStr(S_get_credentials), JNull),
     RequestWith(JInt(5), JStr(S_get_credentials), JObj(<< <<K_domain, JInt(7)>> >>)),
     Request(JInt(6), JStr(S_does_not_exist)),
     JObj(<<>>) >>

\* JSON documents that are not objects
OtherDocs == << JArr(<<>>), JNull >>

\* the frame a well-behaved sender writes for a document
Frame(doc, order) ==
  LET payload == utf8_encode(json_dumps(doc))
  IN struct_pack(Len(payload), order).v \o payload

\* frames that are not well formed
BadFrames(order) ==
  << <<1, 0>>,                                              \* 2 bytes of a prefix
     struct_pack(5, order).v \o <<123, 125>>,               \* claims 5 bytes, has '{}'
     LET f == Frame(RequestDocs[1], order)
     IN SubSeq(f, 1, Len(f) - 3),                           \* payload cut 3 bytes short
     struct_pack(1, order).v \o <<255>>,                    \* not UTF-8
     struct_pack(1, order).v \o <<123>> >>                  \* '{': not JSON

Docs == RequestDocs \o OtherDocs

Frames(order) ==
  [i \in 1..Len(Docs) |-> Frame(Docs[i], order)] \o BadFrames(order)

NumFrames == Len(Docs) + Len(BadFrames("little"))

\* the frames that follow the first one of a stream: two requests that
\* succeed (test-connection, get-status), one that fails, an unknown action,
\* a document that is not an object, and the frames that are not well formed
LaterFrames ==
  {1, 2, 5, 8, Len(RequestDocs) + 1} \cup ((Len(Docs) + 1)..(Len(Docs) + 4))

\* the first frame of a stream ranges over all the frames
Scripts ==
  {sc \in UNION {[1..n -> 1..NumFrames] : n \in 0..MaxFrames} :
     \A i \in 2..Len(sc) : sc[i] \in LaterFrames}

RECURSIVE Stream(_, _)
Stream(sc, order) ==
  IF sc = <<>> THEN <<>> ELSE Frames(order)[Head(sc)] \o Stream(Tail(sc), order)

\* ------------------------------------------------------------------------
\* Initial state: KeePassHost() and the start of run()
\* ------------------------------------------------------------------------
Init ==
  /\ byteorder \in {"little", "big"}
  /\ PYKEEPASS_AVAILABLE \in BOOLEAN
  /\ kp = JNull
  /\ database_path = JNull
  /\ is_connected = FALSE
  /\ script \in Scripts
  /\ stdin = Stream(script, byteorder)
  /\ stdout = <<>>
  /\ flushed = 0
  /\ pc = "read"
  /\ message = JNull
  /\ response = JNull
  /\ encoded_message = <<>>
  /\ faults = 0
  /\ last_read = NoRead
  /\ stop_reason = "none"
  /\ requests = <<>>
  /\ responses = <<>>
  /\ handled = <<>>
  /\ mark = 0
  /\ stopped_at = "none"

\* ------------------------------------------------------------------------
\* run(): one action per step of the loop
\* ------------------------------------------------------------------------
\* as ReadMessage, with "continue" where read(4) returns no byte: the loop
\* polls the closed stream
ReadMessage_PollAtEndOfStream ==
  /\ pc = "read"
  /\ LET r == read_message(stdin, byteorder)
     IN /\ stdin' = r.rest
        /\ message' = r.message
        /\ last_read' = r.info
        /\ mark' = Len(stdout)
        /\ IF r.message = JNull
           THEN /\ pc' = IF r.info.kind = "EndOfStream" THEN "read" ELSE "stopped"
                /\ stop_reason' = IF r.info.kind = "EndOfStream" THEN stop_reason
                                  ELSE "no_message"
                /\ stopped_at' = IF r.info.kind = "EndOfStream" THEN stopped_at ELSE pc
                /\ requests' = requests
           ELSE /\ pc' = "handle"
                /\ stop_reason' = stop_reason
                /\ stopped_at' = stopped_at
                /\ requests' = IF r.message.t = "obj" THEN Append(requests, r.message)
                               ELSE requests
  /\ UNCHANGED <<session, stdout, flushed, response, encoded_message, faults, responses,
                 handled>>

\* as ReadMessage, with "continue" after a decode failure: only the end of
\* the stream stops the loop
ReadMessage_ContinueOnError ==
  /\ pc = "read"
  /\ LET r == read_message(stdin, byteorder)
     IN /\ stdin' = r.rest
        /\ message' = r.message
        /\ last_read' = r.info
        /\ mark' = Len(stdout)
        /\ IF r.message = JNull
           THEN /\ pc' = IF r.info.kind = "DecodeError" THEN "read" ELSE "stopped"
                /\ stop_reason' = IF r.info.kind = "DecodeError" THEN stop_reason
                                  ELSE "no_message"
                /\ stopped_at' = IF r.info.kind = "DecodeError" THEN stopped_at ELSE pc
                /\ requests' = requests
           ELSE /\ pc' = "handle"
                /\ stop_reason' = stop_reason
                /\ stopped_at' = stopped_at
                /\ requests' = IF r.message.t = "obj" THEN Append(requests, r.message)
                               ELSE requests
  /\ UNCHANGED <<session, stdout, flushed, response, encoded_message, faults, responses,
                 handled>>

\* run() without the test "if message is None: break": None goes to handle_message
ReadMessage_NoBreak ==
  /\ pc = "read"
  /\ LET r == read_message(stdin, byteorder)
     IN /\ stdin' = r.rest
        /\ message' = r.message
        /\ last_read' = r.info
        /\ mark' = Len(stdout)
        /\ pc' = "handle"
        /\ requests' = IF r.message.t = "obj" THEN Append(requests, r.message)
                       ELSE requests
  /\ UNCHANGED <<session, stdout, flushed, response, encoded_message, faults, responses,
                 handled, stop_reason, stopped_at>>

\* message = self.read_message(); if message is None: break
ReadMessage ==
  /\ pc = "read"
  /\ LET r == read_message(stdin, byteorder)
     IN /\ stdin' = r.rest
        /\ message' = r.message
        /\ last_read' = r.info
        /\ mark' = Len(stdout)
        /\ IF r.message = JNull
           THEN /\ pc' = "stopped"
                /\ stop_reason' = "no_message"
                /\ stopped_at' = pc
                /\ requests' = requests
           ELSE /\ pc' = "handle"
                /\ stop_reason' = stop_reason
                /\ stopped_at' = stopped_at
                /\ requests' = IF r.message.t = "obj" THEN Append(requests, r.message)
                               ELSE requests
  /\ UNCHANGED <<session, stdout, flushed, response, encoded_message, faults, responses,
                 handled>>

\* as HandleMessage, with handle_get_credentials keeping the domain of the
\* request in self.database_path
HandleMessage_RemembersDomain ==
  /\ pc = "handle"
  /\ IF message.t = "obj"
     THEN /\ response' = handle_message(message)
          /\ handled' = Append(handled, <<message, response'>>)
          /\ pc' = "write_prefix"
          /\ stop_reason' = stop_reason
          /\ stopped_at' = stopped_at
          /\ LET data == DictGet(message, K_data, JObj(<<>>))
             IN database_path' =
                  IF /\ DictGet(message, K_action, JNull) = JStr(S_get_credentials)
                     /\ data.t = "obj"
                     /\ DictGet(data, K_domain, JNull).t = "str"
                  THEN DictGet(data, K_domain, JNull) ELSE database_path
     ELSE /\ response' = response
          /\ handled' = handled
          /\ pc' = "stopped"
          /\ stop_reason' = "fatal"
          /\ stopped_at' = pc
          /\ database_path' = database_path
  /\ UNCHANGED <<byteorder, PYKEEPASS_AVAILABLE, kp, is_connected, script, stdin,
                 stdout, flushed, message, encoded_message, faults, last_read,
                 requests, responses, mark>>

\* as HandleMessage, with handle_test_connection recording the connection
\* in self.is_connected
HandleMessage_SetsConnected ==
  /\ pc = "handle"
  /\ IF message.t = "obj"
     THEN /\ response' = handle_message(message)
          /\ handled' = Append(handled, <<message, response'>>)
          /\ pc' = "write_prefix"
          /\ stop_reason' = stop_reason
          /\ stopped_at' = stopped_at
          /\ is_connected' = IF DictGet(message, K_action, JNull) = JStr(S_test_connection)
                             THEN PYKEEPASS_AVAILABLE ELSE is_connected
     ELSE /\ response' = response
          /\ handled' = handled
          /\ pc' = "stopped"
          /\ stop_reason' = "fatal"
          /\ stopped_at' = pc
          /\ is_connected' = is_connected
  /\ UNCHANGED <<byteorder, PYKEEPASS_AVAILABLE, kp, database_path, script, stdin,
                 stdout, flushed, message, encoded_message, faults, last_read,
                 requests, responses, mark>>

\* response = self.handle_message(message); message.get on a value that is
\* not a dict raises AttributeError before the try block, and run() catches
\* it in its "except Exception" clause
HandleMessage ==
  /\ pc = "handle"
  /\ IF message.t = "obj"
     THEN /\ response' = handle_message(message)
          /\ handled' = Append(handled, <<message, response'>>)
          /\ pc' = "write_prefix"
          /\ stop_reason' = stop_reason
          /\ stopped_at' = stopped_at
     ELSE /\ response' = response
          /\ handled' = handled
          /\ pc' = "stopped"
          /\ stop_reason' = "fatal"
          /\ stopped_at' = pc
  /\ UNCHANGED <<session, stdin, stdout, flushed, message, encoded_message, faults,
                 last_read, requests, responses, mark>>

\* send_message: json.dumps, len, struct.pack and the write of the prefix
WritePrefix ==
  /\ pc = "write_prefix"
  /\ LET encoded == utf8_encode(json_dumps(response))
         prefix == struct_pack(Len(encoded), byteorder)
     IN /\ encoded_message' = encoded
        /\ IF prefix.ok
           THEN stdout' = stdout \o prefix.v /\ pc' = "write_payload"
           ELSE stdout' = stdout /\ pc' = "read"           \* struct.error, logged
  /\ UNCHANGED <<session, stdin, flushed, message, response, faults, last_read,
                 stop_reason, requests, responses, handled, mark, stopped_at>>

\* send_message: the write of the payload
WritePayload ==
  /\ pc = "write_payload"
  /\ stdout' = stdout \o encoded_message
  /\ responses' = Append(responses, response)
  /\ pc' = "flush"
  /\ UNCHANGED <<session, stdin, flushed, message, response, encoded_message, faults,
                 last_read, stop_reason, requests, handled, mark, stopped_at>>

\* send_message: the flush; run() goes back to the top of its loop
Flush ==
  /\ pc = "flush"
  /\ flushed' = Len(stdout)
  /\ pc' = "read"
  /\ UNCHANGED <<session, stdin, stdout, message, response, encoded_message, faults,
                 last_read, stop_reason, requests, responses, handled, mark, stopped_at>>

\* a write or the flush raises OSError (a closed pipe, a full disk):
\* send_message logs it and returns, run() goes on with the next read
StdoutRaises ==
  /\ pc \in {"write_prefix", "write_payload", "flush"}
  /\ faults < MaxFaults
  /\ faults' = faults + 1
  /\ pc' = "read"
  /\ UNCHANGED <<session, stdin, stdout, flushed, message, response, encoded_message,
                 last_read, stop_reason, requests, responses, handled, mark, stopped_at>>

\* as Interrupt, with send_message catching the KeyboardInterrupt raised
\* inside it (except BaseException): run() goes on with the next read
Interrupt_CaughtWhileSending ==
  /\ pc # "stopped"
  /\ pc' = IF pc \in {"write_prefix", "write_payload", "flush"} THEN "read" ELSE "stopped"
  /\ stop_reason' = "interrupt"
  /\ stopped_at' = pc
  /\ UNCHANGED <<session, stdin, stdout, flushed, message, response, encoded_message,
                 faults, last_read, requests, responses, handled, mark>>

\* SIGINT: KeyboardInterrupt is not an Exception, so only run() catches it
Interrupt ==
  /\ pc # "stopped"
  /\ pc' = "stopped"
  /\ stop_reason' = "interrupt"
  /\ stopped_at' = pc
  /\ UNCHANGED <<session, stdin, stdout, flushed, message, response, encoded_message,
                 faults, last_read, requests, responses, handled, mark>>

Next ==
  \/ ReadMessage
  \/ HandleMessage
  \/ WritePrefix
  \/ WritePayload
  \/ Flush
  \/ StdoutRaises
  \/ Interrupt

Spec == Init /\ [][Next]_vars

\* the statements of run(): a read of the closed stream returns, a call on
\* stdout returns or raises
Step ==
  ReadMessage \/ HandleMessage \/ WritePrefix \/ WritePayload \/ Flush \/ StdoutRaises

\* run() does not halt while it can take a step: the statement it is at is
\* carried out, unless a signal ends the loop first. Nothing obliges a
\* signal to come while a statement can be carried out.
FairSpec == Init /\ [][Next]_vars /\ WF_vars(Interrupt \/ Step)

\* ------------------------------------------------------------------------
\* Loopback: send_message writes an envelope and the bytes on stdout are
\* fed to read_message
\* ------------------------------------------------------------------------
S_quoted == <<97, 34, 98, 92, 99>>  \* 'a"b\c'

QuotedRequest == Request(JStr(S_quoted), JStr(S_quoted))

\* request envelopes and the response envelopes handle_message builds
Envelopes ==
  {RequestDocs[i] : i \in 1..Len(RequestDocs)}
    \cup {handle_message(RequestDocs[i]) : i \in 1..Len(RequestDocs)}
    \cup {QuotedRequest, handle_message(QuotedRequest)}

LoopbackInit ==
  /\ byteorder \in {"little", "big"}
  /\ PYKEEPASS_AVAILABLE \in BOOLEAN
  /\ kp = JNull
  /\ database_path = JNull
  /\ is_connected = FALSE
  /\ script = <<>>
  /\ stdin = <<>>
  /\ stdout = <<>>
  /\ flushed = 0
  /\ pc = "write_prefix"
  /\ message = JNull
  /\ response \in Envelopes
  /\ encoded_message = <<>>
  /\ faults = 0
  /\ last_read = NoRead
  /\ stop_reason = "none"
  /\ requests = <<>>
  /\ responses = <<>>
  /\ handled = <<>>
  /\ mark = 0
  /\ stopped_at = "none"

\* the bytes written so far become the input stream
Pipe ==
  /\ pc = "read"
  /\ last_read.kind = "none"
  /\ stdout # <<>>
  /\ stdin = <<>>
  /\ stdin' = stdout
  /\ UNCHANGED <<session, stdout, flushed, pc, message, response, encoded_message,
                 faults, last_read, stop_reason, requests, responses, handled, mark,
                 stopped_at>>

LoopbackNext == Pipe \/ Next

SpecLoopback == LoopbackInit /\ [][LoopbackNext]_vars


\* ------------------------------------------------------------------------
\* Vocabulary of the properties
\* ------------------------------------------------------------------------
\* run() is inside send_message(response)
Sending == pc \in {"write_prefix", "write_payload", "flush"}

\* run() holds the response that handle_message built for message
Answered == Sending /\ message.t = "obj"

\* text holds sub as a contiguous part
Contains(text, sub) ==
  \E i \in 1..(Len(text) - Len(sub) + 1) : SubSeq(text, i, i + Len(sub) - 1) = sub

ActionOf(msg) == DictGet(msg, K_action, JNull)

KnownActions == {JStr(S_test_connection), JStr(S_get_credentials), JStr(S_get_status)}

Success(resp) == DictGet(resp, K_success, JNull) = JBool(TRUE)

Failure(resp) == DictGet(resp, K_success, JNull) = JBool(FALSE)

\* out is a concatenation of whole frames: each 4-byte prefix is followed
\* by as many bytes as it announces
RECURSIVE WholeFrames(_, _)
WholeFrames(out, order) ==
  \/ out = <<>>
  \/ /\ Len(out) >= 4
     /\ LET n == struct_unpack(Take(out, 4), order).v
        IN /\ Len(out) >= 4 + n
           /\ WholeFrames(Drop(out, 4 + n), order)

\* ------------------------------------------------------------------------
\* C1: every request envelope run() obtains gets exactly one whole response
\* frame: never more than one, and never none once the loop has gone back
\* to read a later request.
\* ------------------------------------------------------------------------
C1_OneResponsePerRequest ==
  /\ Len(responses) <= Len(requests)
  /\ (pc = "read" => Len(responses) = Len(requests))

\* ------------------------------------------------------------------------
\* C2: the response handle_message returns carries the id and the action
\* of the request it answers (None when the request has none), on the
\* success path and on the error path.
\* ------------------------------------------------------------------------
C2_IdActionCopied ==
  Answered =>
    /\ DictHas(response, K_id)
    /\ DictHas(response, K_action)
    /\ DictGet(response, K_id, JNull) = DictGet(message, K_id, JNull)
    /\ DictGet(response, K_action, JNull) = DictGet(message, K_action, JNull)

\* an error response to a request that has no id has been built
C2_Witness ==
  /\ pc = "flush"
  /\ message.t = "obj"
  /\ ~DictHas(message, K_id)
  /\ DictHas(message, K_action)
  /\ Failure(response)

\* ------------------------------------------------------------------------
\* C3: a response envelope holds exactly one of 'data' and 'error': 'data'
\* iff success is true, 'error' iff success is false.
\* ------------------------------------------------------------------------
C3_DataXorError ==
  Answered =>
    /\ Success(response) \/ Failure(response)
    /\ DictHas(response, K_data) <=> Success(response)
    /\ DictHas(response, K_error) <=> Failure(response)
    /\ DictHas(response, K_data) # DictHas(response, K_error)

\* a success response and, before it, an error response have been sent
C3_Witness ==
  /\ pc = "flush"
  /\ Success(response)
  /\ Len(responses) = 2
  /\ Failure(responses[1])

\* ------------------------------------------------------------------------
\* C4: the loop stops only at end of stream, on a decode failure or on an
\* interrupt; a frame that was read whole and parsed never stops it.
\* ------------------------------------------------------------------------
C4_OnlyStreamErrorsStop ==
  (pc = "stopped" /\ stop_reason # "interrupt")
    => last_read.kind \in {"EndOfStream", "DecodeError"}

\* ------------------------------------------------------------------------
\* C5: a frame whose prefix announces more bytes than the stream holds is a
\* decode failure: read_message returns no message, nothing is dispatched
\* or answered, and the loop stops.
\* ------------------------------------------------------------------------
C5_TruncatedIsDecodeError ==
  (last_read.kind # "none" /\ last_read.got < last_read.length)
    => /\ last_read.kind = "DecodeError"
       /\ pc = "stopped"
       /\ stop_reason \in {"no_message", "interrupt"}

\* ------------------------------------------------------------------------
\* C6 (as stated): 'get-credentials' with no 'domain' in data (data {} or
\* absent) fails with "Domain not provided" and opens no backend, whatever
\* the availability of the backend.
\* ------------------------------------------------------------------------
NoDomainRequest(msg) ==
  /\ msg.t = "obj"
  /\ ActionOf(msg) = JStr(S_get_credentials)
  /\ LET data == DictGet(msg, K_data, JObj(<<>>))
     IN data.t = "obj" /\ ~DictHas(data, K_domain)

NoBackendCall == kp = JNull /\ database_path = JNull /\ is_connected = FALSE

C6_DomainNotProvided ==
  (Answered /\ NoDomainRequest(message))
    => /\ Failure(response)
       /\ DictGet(response, K_error, JNull) = JStr(S_NoDomain)
       /\ NoBackendCall

\* C6 (amended): such a request fails and opens no backend; the error is
\* "Domain not provided" when pykeepass is available and "PyKeePass not
\* available" when it is not.
C6_DomainNotProvidedWhenAvailable ==
  (Answered /\ NoDomainRequest(message))
    => /\ Failure(response)
       /\ DictGet(response, K_error, JNull)
            = JStr(IF PYKEEPASS_AVAILABLE THEN S_NoDomain ELSE S_NotAvail)
       /\ NoBackendCall

\* a request without 'data' has been answered with pykeepass available
C6_Witness ==
  /\ pc = "flush"
  /\ NoDomainRequest(message)
  /\ ~DictHas(message, K_data)
  /\ PYKEEPASS_AVAILABLE
  /\ Failure(response)

\* ------------------------------------------------------------------------
\* C7: a request whose action is none of the three registered names (or is
\* absent) gets success false and an error text that holds the action
\* name; the loop does not stop on it and goes on to the next read.
\* ------------------------------------------------------------------------
UnknownAction(msg) == msg.t = "obj" /\ ActionOf(msg) \notin KnownActions

C7_UnknownAction ==
  [][ /\ (pc = "handle" /\ UnknownAction(message) /\ pc' # "handle"
            /\ stop_reason' # "interrupt")
         => /\ pc' = "write_prefix"
            /\ Failure(response')
            /\ DictGet(response', K_error, JNull).t = "str"
            /\ Contains(DictGet(response', K_error, JNull).s, PyStr(ActionOf(message)))
      /\ (Sending /\ UnknownAction(message) /\ stop_reason' # "interrupt")
         => pc' \in {"write_prefix", "write_payload", "flush", "read"}
    ]_vars

\* an unknown action was answered and the request after it too
C7_Witness ==
  /\ pc = "read"
  /\ Len(requests) = 2
  /\ UnknownAction(requests[1])
  /\ Len(responses) = 2
  /\ Failure(responses[1])
  /\ stop_reason = "none"

\* ------------------------------------------------------------------------
\* C8: send_message never leaves a part of a frame on stdout: outside the
\* two writes, stdout is a sequence of whole frames, also after a failed
\* write or an interrupt.
\* ------------------------------------------------------------------------
C8_NoPartialFrame ==
  pc # "write_payload" => WholeFrames(stdout, byteorder)

\* ------------------------------------------------------------------------
\* C9: on a stream of k well-formed request frames the loop decodes the k
\* messages in stream order, each read consumes 4 + length bytes and leaves
\* the stream at the next prefix, and the stream is empty after the k-th.
\* ------------------------------------------------------------------------
WellFormedScript == \A i \in 1..Len(script) : script[i] <= Len(RequestDocs)

C9_FramingExact ==
  WellFormedScript =>
    /\ Len(requests) <= Len(script)
    /\ \A i \in 1..Len(requests) : requests[i] = RequestDocs[script[i]]
    /\ stdin = Stream(SubSeq(script, Len(requests) + 1, Len(script)), byteorder)
    /\ last_read.kind = "Message"
         => /\ last_read.got = last_read.length
            /\ last_read.consumed = 4 + last_read.length
            /\ message = requests[Len(requests)]
    /\ last_read.kind \notin {"none", "Message"}
         => /\ last_read.kind = "EndOfStream"
            /\ Len(requests) = Len(script)
            /\ stdin = <<>>

\* two frames were decoded and the third read found the end of the stream
C9_Witness ==
  /\ Len(script) = 2
  /\ WellFormedScript
  /\ Len(requests) = 2
  /\ requests[1] # requests[2]
  /\ pc = "stopped"
  /\ last_read.kind = "EndOfStream"

\* ------------------------------------------------------------------------
\* C10: read_message on the bytes send_message wrote for an envelope
\* returns the envelope, and the prefix is the byte length of the payload.
\* ------------------------------------------------------------------------
C10_RoundTrip ==
  (last_read.kind \notin {"none", "EndOfStream"} /\ Len(responses) >= 1)
    => /\ last_read.kind = "Message"
       /\ message = responses[1]
       /\ last_read.length = Len(utf8_encode(json_dumps(responses[1])))
       /\ last_read.got = last_read.length
       /\ last_read.consumed = Len(Frame(responses[1], byteorder))

\* an envelope with a quote and a backslash in its id came back
C10_Witness ==
  /\ pc = "handle"
  /\ last_read.kind = "Message"
  /\ responses = <<message>>
  /\ DictGet(message, K_id, JNull) = JStr(S_quoted)
  /\ Failure(message)

\* ------------------------------------------------------------------------
\* C11: when stdin is at end-of-stream on the first read (the browser sent
\* nothing), the loop goes from Running to Stopped: the first read_message
\* reports end-of-stream without consuming anything, run() leaves its loop
\* at that read, no message was ever dispatched and stdout holds no byte.
\* Until that read (or an interrupt) the loop is at its read position.
\* ------------------------------------------------------------------------
C11_EndOfStreamAtOnce ==
  script = <<>> =>
    /\ stdout = <<>>
    /\ requests = <<>> /\ handled = <<>> /\ responses = <<>>
    /\ response = JNull
    /\ pc \in {"read", "stopped"}
    /\ stopped_at \in {"none", "read"}
    /\ last_read.kind # "none" =>
         /\ last_read.kind = "EndOfStream" /\ last_read.consumed = 0
         /\ pc = "stopped"
         /\ stop_reason \in {"no_message", "interrupt"}

C11_Witness ==
  /\ script = <<>>
  /\ last_read.kind = "EndOfStream"
  /\ pc = "stopped" /\ stop_reason = "no_message" /\ stopped_at = "read"
  /\ stdout = <<>>

\* ------------------------------------------------------------------------
\* C12: 'get-credentials' succeeds only when data.domain is a non-empty
\* string: for every other data (domain absent, empty, or a value that is
\* not a string) the response is a failure, never a success, and the
\* failure is "Domain not provided" (compared when the handler reaches its
\* test of the domain: pykeepass available and data a mapping).
\* ------------------------------------------------------------------------
StringDomainRequest(msg) ==
  LET data == DictGet(msg, K_data, JObj(<<>>))
  IN /\ data.t = "obj"
     /\ DictGet(data, K_domain, JStr(<<>>)).t = "str"
     /\ DictGet(data, K_domain, JStr(<<>>)).s # <<>>

C12_SucceedsOnlyOnStringDomain ==
  (/\ Answered
   /\ ActionOf(message) = JStr(S_get_credentials)
   /\ ~StringDomainRequest(message))
    => /\ Failure(response)
       /\ ~Success(response)
       /\ (PYKEEPASS_AVAILABLE /\ DictGet(message, K_data, JObj(<<>>)).t = "obj")
            => DictGet(response, K_error, JNull) = JStr(S_NoDomain)

\* ------------------------------------------------------------------------
\* C13: before a store is opened (kp is None), after any sequence of
\* requests, 'get-status' returns success with exactly isOpen = false,
\* isDatabaseLoaded = false and databaseName = ""; and in every state the
\* isOpen and isDatabaseLoaded that get-status reports are equal.
\* ------------------------------------------------------------------------
ClosedStatus ==
  JObj(<< <<K_isOpen, JBool(FALSE)>>, <<K_isDatabaseLoaded, JBool(FALSE)>>,
          <<K_databaseName, JStr(<<>>)>> >>)

C13_StatusBeforeOpen ==
  /\ kp = JNull => handle_get_status(JObj(<<>>)) = Return(ClosedStatus)
  /\ LET status == handle_get_status(JObj(<<>>))
     IN status.ok /\ DictGet(status.v, K_isOpen, JNull)
                       = DictGet(status.v, K_isDatabaseLoaded, JInt(0))
  /\ \A i \in 1..Len(handled) :
       (kp = JNull /\ ActionOf(handled[i][1]) = JStr(S_get_status))
         => /\ Success(handled[i][2])
            /\ DictGet(handled[i][2], K_data, JNull) = ClosedStatus

C13_Witness ==
  /\ kp = JNull
  /\ Len(handled) = 2
  /\ ActionOf(handled[1][1]) # JStr(S_get_status)
  /\ ActionOf(handled[2][1]) = JStr(S_get_status)
  /\ Len(responses) = 2
  /\ DictGet(responses[2], K_data, JNull) = ClosedStatus

\* ------------------------------------------------------------------------
\* C14: an exception raised inside a handler while a request envelope is
\* dispatched (for instance 'get-credentials' with a data that is null or
\* not a mapping) becomes a response with success false and error equal to
\* the text of the exception; the loop stays Running: it sends the response
\* and goes to the next read.
\* ------------------------------------------------------------------------
\* the text of the exception the handlers raise for msg, <<>> when none
FaultText(msg) ==
  LET action == ActionOf(msg)
      data == DictGet(msg, K_data, JObj(<<>>))
  IN IF action \notin KnownActions THEN S_UnknownAction \o PyStr(action)
     ELSE IF action # JStr(S_get_credentials) THEN <<>>
     ELSE IF ~PYKEEPASS_AVAILABLE THEN S_NotAvail
     ELSE IF data.t # "obj" THEN <<39>> \o TypeName(data) \o S_AttrPost
     ELSE IF ~Truthy(DictGet(data, K_domain, JStr(<<>>))) THEN S_NoDomain
     ELSE <<>>

HandlerRaises(msg) == msg.t = "obj" /\ FaultText(msg) # <<>>

C14_HandlerFaultAnswered ==
  [][/\ (pc = "handle" /\ HandlerRaises(message))
          => \/ /\ pc' = "write_prefix"
                /\ Failure(response')
                /\ DictGet(response', K_error, JNull) = JStr(FaultText(message))
                /\ ~DictHas(response', K_data)
             \/ pc' = "stopped" /\ stop_reason' = "interrupt"
     /\ (Sending /\ HandlerRaises(message))
          => \/ pc' \in {"write_payload", "flush", "read"}
             \/ pc' = "stopped" /\ stop_reason' = "interrupt"]_vars

C14_Witness ==
  /\ PYKEEPASS_AVAILABLE
  /\ Len(handled) = 2
  /\ handled[1][1] = RequestDocs[6]
  /\ DictGet(handled[1][1], K_data, JInt(0)) = JNull
  /\ Len(responses) = 2
  /\ Failure(responses[1])
  /\ DictGet(responses[1], K_error, JNull) = JStr(NoGetError(JNull))
  /\ pc = "read"

\* ------------------------------------------------------------------------
\* C15: reads and writes strictly alternate: whenever the loop is about to
\* read a frame, the write and the flush of the response to every request
\* read before have completed (every byte written is flushed and there are
\* as many whole response frames as requests); at most one request is in
\* flight (while a response is produced or sent, exactly the last request
\* has no response yet); responses are emitted in the order of the requests.
\* ------------------------------------------------------------------------
C15_ReadsAndWritesAlternate ==
  /\ pc = "read"
       => /\ flushed = Len(stdout)
          /\ Len(responses) = Len(requests)
  /\ pc \in {"handle", "write_prefix", "write_payload"}
       => Len(requests) - Len(responses) <= 1
  /\ Len(responses) <= Len(requests)
  /\ \A i \in 1..Len(responses) : responses[i] = handle_message(requests[i])

\* ------------------------------------------------------------------------
\* C16: Stopped is absorbing: the read_message that reports a decode
\* failure (short prefix, short payload, invalid UTF-8, unparsable payload)
\* stops the loop at once without dispatching or writing anything, and from
\* then on no byte is read from stdin and no byte is written to stdout,
\* even when well-formed frames follow the malformed one in the stream.
\* ------------------------------------------------------------------------
C16_StoppedIsAbsorbing ==
  [][/\ last_read'.kind = "DecodeError"
          => /\ pc' = "stopped"
             /\ UNCHANGED <<stdout, flushed, responses, requests, handled>>
     /\ last_read.kind = "DecodeError"
          => UNCHANGED <<pc, stdin, stdout, flushed, responses, requests, handled>>
     /\ pc = "stopped" => UNCHANGED <<pc, stdin, stdout>>]_vars

\* an unread well-formed frame stays on stdin after the loop stopped on a
\* frame that is not well formed
C16_Witness ==
  /\ Len(script) = 2
  /\ script[1] > Len(Docs)
  /\ script[2] = 1
  /\ last_read.kind = "DecodeError"
  /\ pc = "stopped" /\ stop_reason = "no_message"
  /\ stdin = Frame(RequestDocs[1], byteorder)
  /\ stdout = <<>>

\* ------------------------------------------------------------------------
\* C17: an interrupt arriving at any point of the loop (while blocked in a
\* read, while a handler runs, while a response is being written) moves the
\* loop to Stopped and no response is written after it: the request in
\* flight, if any, gets no response (its whole response frame is not on
\* stdout).
\* ------------------------------------------------------------------------
\* run() was interrupted between the return of read_message and the return
\* of send_message: a request was in flight
InterruptedInFlight ==
  /\ stop_reason = "interrupt"
  /\ stopped_at \in {"handle", "write_prefix", "write_payload", "flush"}
  /\ message.t = "obj"

\* the number of bytes written to stdout for the request in flight
InFlightBytes == Len(stdout) - mark

C17_InterruptLeavesNoResponse ==
  /\ stop_reason = "interrupt" => pc = "stopped"
  /\ InterruptedInFlight
       => ~(InFlightBytes = 4 + Len(utf8_encode(json_dumps(handle_message(message)))))

\* C17, amended: an interrupt at any point of the loop moves it to Stopped
\* and nothing is written to stdout (or read from stdin) after it. What was
\* written for the request in flight before the interrupt stays: nothing
\* when the handler or the encoding was interrupted, the 4 prefix bytes
\* when the interrupt came between the two writes, the whole response frame
\* when it came between the write of the payload and the return of flush.
C17_InterruptStopsWriting ==
  [][/\ stop_reason' = "interrupt"
          => /\ pc' = "stopped"
             /\ stopped_at' \in {"handle", "write_prefix"} => InFlightBytes' = 0
             /\ stopped_at' = "write_payload" => InFlightBytes' = 4
             /\ stopped_at' = "flush"
                  => /\ InFlightBytes' = 4 + Len(encoded_message')
                     /\ responses' # <<>>
                     /\ responses'[Len(responses')] = handle_message(message')
                     /\ flushed' < Len(stdout')
             /\ stop_reason # "interrupt" => UNCHANGED <<stdin, stdout, flushed, responses>>
     /\ stop_reason = "interrupt"
          => UNCHANGED <<pc, stdin, stdout, flushed, responses>>]_vars

C17_Witness ==
  /\ InterruptedInFlight
  /\ stopped_at = "flush"
  /\ pc = "stopped"
  /\ InFlightBytes = 4 + Len(encoded_message)
  /\ Len(responses) = Len(requests)

\* ------------------------------------------------------------------------
\* C18: no request changes the Session state: no step of the loop, for any
\* request (successful or failing), changes kp, database_path or
\* is_connected, so after any sequence of requests they have their initial
\* values None, None and False.
\* ------------------------------------------------------------------------
C18_SessionUnchanged ==
  [][/\ UNCHANGED <<kp, database_path, is_connected>>
     /\ kp' = JNull /\ database_path' = JNull /\ is_connected' = FALSE]_vars

C18_Witness ==
  /\ Len(handled) = 2
  /\ Success(handled[1][2])
  /\ Failure(handled[2][2])
  /\ Len(responses) = 2
  /\ pc = "read"
  /\ <<kp, database_path, is_connected>> = <<JNull, JNull, FALSE>>

\* ------------------------------------------------------------------------
\* C19: requests are independent: the response to a request is a function
\* of that request and of the availability of the backend only. The same
\* request gets the same response wherever it stands in a run (after no
\* request or after any other), every request handled so far would get the
\* response it got if it were handled again now, and no text of an earlier
\* request (its id, its domain, its action name) appears in a later
\* response unless the later request holds it too (the texts are compared
\* when handle_message has just returned a response).
\* ------------------------------------------------------------------------
Markers == {S_abc123, S_a_b, S_does_not_exist, S_test_connection, S_get_status}

C19_RequestsIndependent ==
  /\ \A i, j \in 1..Len(handled) :
       handled[i][1] = handled[j][1] => handled[i][2] = handled[j][2]
  /\ \A i \in 1..Len(handled) : handled[i][2] = handle_message(handled[i][1])
  /\ pc = "write_prefix" =>
       \A j \in 2..Len(handled) : \A i \in 1..(j - 1) :
         LET earlier == json_dumps(handled[i][1])
             later == json_dumps(handled[j][1])
             answer == json_dumps(handled[j][2])
         IN \A mk \in Markers :
              (Contains(earlier, mk) /\ ~Contains(later, mk)) => ~Contains(answer, mk)

\* get-status after a get-credentials that named a domain
C19_Witness ==
  /\ Len(handled) = 2
  /\ DictGet(handled[1][1], K_data, JNull) = JObj(<< <<K_domain, JStr(S_a_b)>> >>)
  /\ ActionOf(handled[2][1]) = JStr(S_get_status)
  /\ Success(handled[2][2])
  /\ ~Contains(json_dumps(handled[2][2]), S_a_b)
  /\ Len(responses) = 2

\* ------------------------------------------------------------------------
\* C20: for every finite input stream that is closed after its last byte,
\* whatever bytes it holds, the session loop eventually reaches Stopped:
\* every read either stops the loop or consumes at least the 4 bytes of a
\* prefix, so the loop cannot run forever on a closed stream.
\* ------------------------------------------------------------------------
C20_LoopTerminates ==
  /\ <>(pc = "stopped")
  /\ [][pc = "read" => (pc' = "stopped" \/ Len(stdin') + 4 <= Len(stdin))]_vars

\* the loop read two requests, answered them and stopped at the end of the
\* stream
C20_Witness ==
  /\ pc = "stopped" /\ stop_reason = "no_message"
  /\ last_read.kind = "EndOfStream"
  /\ stdin = <<>>
  /\ Len(handled) = 2
  /\ Len(responses) = 2
====
